---- MODULE Spec2Model ----
(***************************************************************************)
(* Job / JobApplication / CheckIn lifecycle and the escrow settlement      *)
(* engine of the jumushtap backend (src/backend/apps/jobs,                 *)
(* src/backend/apps/payments).                                             *)
(*                                                                         *)
(* Storage is the production database (PostgreSQL, READ COMMITTED): the    *)
(* variables job .. payouts hold the committed rows.  Every request is a   *)
(* process that                                                            *)
(*   - loads model instances (its in-memory snapshot, kept in req[p]),     *)
(*   - runs the service function against that snapshot,                    *)
(*   - commits its writes as one unit (transaction.atomic).                *)
(* A request that has written a row and then waits for the PSP keeps the   *)
(* row lock until it commits (phase "mid"); writers of that row wait.      *)
(* The PSP (MockPSPAdapter) is outside the database transaction: what it   *)
(* has done is never rolled back.                                          *)
(***************************************************************************)
EXTENDS Integers, Sequences, FiniteSets, TLC

\* ------------------------------------------------------------- bounds
NumWorkers == 2
NumRequests == 2
WorkersNeeded == 1
MaxAborts == 1
NumSettled == 1
NumHeld == 2
MaxStamps == 2
HourlyRate == 5
DurationHours == 2
MaxHours == 2

Workers == 1..NumWorkers
Procs == 1..NumRequests
\* Money is counted in hundredths of a som (the two decimal places of the
\* DecimalFields), time in whole hours.  WholeRate is HourlyRate whole soms.
WholeRate == 100 * HourlyRate
WorkedHours == 1..MaxHours
\* The workers whose applications are followed through check-in and settlement.
Settled == 1..NumSettled

VARIABLES
    job,            \* the Job row: status, workers_needed, workers_accepted, published_at
    applications,   \* JobApplication rows, in insertion order (id = index)
    checkins,       \* CheckIn rows
    transactions,   \* Transaction rows
    escrows,        \* Escrow rows
    payouts,        \* Payout rows
    psp_intents,    \* MockPSPAdapter._intents
    psp_transfers,  \* MockPSPAdapter._transfers
    req,            \* the requests in flight, one slot per process
    aborts          \* number of requests that died between PSP call and commit

vars == <<job, applications, checkins, transactions, escrows, payouts,
          psp_intents, psp_transfers, req, aborts>>

db == <<job, applications, checkins, transactions, escrows, payouts>>
psp == <<psp_intents, psp_transfers>>

\* ------------------------------------------------------------- enums
JobStatus == {"draft", "published", "in_progress", "completed", "cancelled"}
ApplicationStatus == {"pending", "accepted", "rejected", "withdrawn"}
TransactionStatus == {"pending", "held", "completed", "refunded", "failed"}
EscrowStatus == {"held", "released", "refunded"}
PayoutStatus == {"pending", "processing", "completed", "failed"}

\* ------------------------------------------------------------- requests
Idle == [op |-> "idle", phase |-> "idle"]

\* A finished request: what it was, on which row, its result (the exception it
\* raised, or "ok") and a detail of the result (what its payment step did).
Done(o, t, out, d) ==
    [op |-> o, phase |-> "done", target |-> t, outcome |-> out, detail |-> d]

\* The process has no request in flight: it can take the next one.
IsIdle(p) == req[p].phase \in {"idle", "done"}
IsBegun(p, o) == req[p].op = o /\ req[p].phase = "begun"
IsMid(p, o) == req[p].op = o /\ req[p].phase = "mid"
IsDone(p, o) == req[p].op = o /\ req[p].phase = "done"
\* The PSP has captured and taken the transfer; the rows are not committed yet.
IsSent(p, o) == req[p].op = o /\ req[p].phase = "sent"

\* Rows a request has written and not yet committed (row locks).
LockedBy(q) ==
    IF req[q].phase \notin {"mid", "sent"} THEN {}
    ELSE IF req[q].op = "cancel_job" THEN {<<"job", 0>>}
    ELSE IF req[q].op = "check_out"
         THEN {<<"checkin", req[q].target>>, <<"transaction", req[q].trans>>}
    ELSE IF req[q].op = "release_escrow_after_checkout"
         THEN {<<"transaction", req[q].trans>>}
    ELSE {}

Free(p, rows) == \A q \in Procs \ {p} : LockedBy(q) \cap rows = {}

\* ------------------------------------------------------------- alternatives
\* Definitions the checked properties are tested against: a state machine that
\* allows every transition, a query that finds no transaction, ...
any_transition(status, new_status) == TRUE
\* A job that never counts as full.
never_full(inst) == FALSE
no_transactions == {}
\* An update that leaves the row as it is.
same_row(row) == row
\* A completion that does not look at the payout it is given.
never_completed(payout) == FALSE
\* A verification that takes every payload.
accepts_all(verified) == TRUE
\* A dispatch table without handlers.
no_handlers == {}
\* A platform that takes no fee.
no_fee(amount) == [platform_fee |-> 0, worker_payout |-> 100 * amount]

\* ------------------------------------------------------------- Job model
valid_transitions(status) ==
    CASE status = "draft" -> {"published", "cancelled"}
      [] status = "published" -> {"in_progress", "cancelled"}
      [] status = "in_progress" -> {"completed", "cancelled"}
      [] status = "completed" -> {}
      [] status = "cancelled" -> {}

can_transition_to(status, new_status) == new_status \in valid_transitions(status)

\* Job.transition_to on an instance loaded as `inst`: the row written by
\* save(update_fields=['status', 'updated_at', 'published_at']).
\* published_at is 0 (null) or a stamp; a later timezone.now() is a greater stamp.
transition_to(inst, new_status) ==
    [job EXCEPT !.status = new_status,
                !.published_at = IF new_status = "published" /\ inst.published_at = 0
                                 THEN job.published_at + 1 ELSE inst.published_at]

is_full(inst) == inst.workers_accepted >= inst.workers_needed

Init ==
    /\ job = [status |-> "draft", workers_needed |-> WorkersNeeded,
              workers_accepted |-> 0, published_at |-> 0,
              hourly_rate |-> WholeRate, duration_hours |-> DurationHours]
    /\ applications = <<>>
    /\ checkins = <<>>
    /\ transactions = <<>>
    /\ escrows = <<>>
    /\ payouts = <<>>
    /\ psp_intents = <<>>
    /\ psp_transfers = <<>>
    /\ req = [p \in Procs |-> Idle]
    /\ aborts = 0

\* The fields of a loaded Job instance that transition_to reads and writes back.
job_instance == [status |-> job.status, published_at |-> job.published_at]

\* The view's get_object(): the request's Job instance.
load_job(p, o) ==
    /\ IsIdle(p)
    /\ req' = [req EXCEPT ![p] = [op |-> o, phase |-> "begun", target |-> 0,
                                  job |-> job_instance]]
    /\ UNCHANGED <<db, psp, aborts>>

publish_job_load(p) == load_job(p, "publish_job")

publish_job(p) ==
    /\ IsBegun(p, "publish_job")
    /\ \E owner \in BOOLEAN, fields_ok \in BOOLEAN :
        IF ~owner THEN
            /\ req' = [req EXCEPT ![p] = Done("publish_job", 0, "PermissionError", "")]
            /\ UNCHANGED <<db, psp, aborts>>
        ELSE IF ~fields_ok THEN
            /\ req' = [req EXCEPT ![p] = Done("publish_job", 0, "ValueError", "")]
            /\ UNCHANGED <<db, psp, aborts>>
        ELSE IF ~can_transition_to(req[p].job.status, "published") THEN
            /\ req' = [req EXCEPT ![p] = Done("publish_job", 0, "InvalidTransition", "")]
            /\ UNCHANGED <<db, psp, aborts>>
        ELSE
            /\ Free(p, {<<"job", 0>>})
            /\ job' = transition_to(req[p].job, "published")
            /\ req' = [req EXCEPT ![p] = Done("publish_job", 0, "ok", "")]
            /\ UNCHANGED <<applications, checkins, transactions, escrows, payouts,
                           psp, aborts>>

complete_job_load(p) == load_job(p, "complete_job")

complete_job(p) ==
    /\ IsBegun(p, "complete_job")
    /\ \E owner \in BOOLEAN :
        IF ~owner THEN
            /\ req' = [req EXCEPT ![p] = Done("complete_job", 0, "PermissionError", "")]
            /\ UNCHANGED <<db, psp, aborts>>
        ELSE IF ~can_transition_to(req[p].job.status, "completed") THEN
            /\ req' = [req EXCEPT ![p] = Done("complete_job", 0, "InvalidTransition", "")]
            /\ UNCHANGED <<db, psp, aborts>>
        ELSE
            /\ Free(p, {<<"job", 0>>})
            /\ job' = transition_to(req[p].job, "completed")
            /\ req' = [req EXCEPT ![p] = Done("complete_job", 0, "ok", "")]
            /\ UNCHANGED <<applications, checkins, transactions, escrows, payouts,
                           psp, aborts>>

\* ------------------------------------------------------------- payments model
\* Transaction.objects.filter(idempotency_key="escrow_create_<application.id>")
TransactionsOf(a) == {i \in DOMAIN transactions : transactions[i].application = a}

\* Escrow.objects.filter(application=a) / trans.escrow
EscrowsOf(a) == {i \in DOMAIN escrows : escrows[i].application = a}
EscrowsOfTransaction(t) == {i \in DOMAIN escrows : escrows[i].transaction = t}

PayoutsOf(t) == {i \in DOMAIN payouts : payouts[i].transaction = t}

\* The unique index on Transaction.idempotency_key admits a row for application a.
idempotency_key_unique(a) == TransactionsOf(a) = {}

\* MockPSPAdapter.create_payment_intent: a new intent in _intents.
create_payment_intent(a) ==
    Append(psp_intents, [application |-> a, captures |-> 0, refunds |-> 0])

\* MockPSPAdapter.capture_payment / refund_payment on intent i.
capture_payment(intents, i) == [intents EXCEPT ![i].captures = @ + 1]
refund_payment(intents, i) == [intents EXCEPT ![i].refunds = @ + 1]

\* MockPSPAdapter.create_transfer for payout number n of transaction t.
create_transfer(t, n) == Append(psp_transfers, [transaction |-> t, payout |-> n])

\* PaymentService.PLATFORM_FEE_PERCENTAGE = Decimal('0.10'), in percent.
PLATFORM_FEE_PERCENTAGE == 10

\* Transaction.calculate_fees on an instance whose amount is set: the two
\* Decimals it assigns, exact, in hundredths of the unit of amount.
calculate_fees(amount) ==
    [platform_fee |-> amount * PLATFORM_FEE_PERCENTAGE,
     worker_payout |-> 100 * amount - amount * PLATFORM_FEE_PERCENTAGE]

\* What a DecimalField(decimal_places=2) column keeps of the Decimal n/d it
\* is given: the nearest hundredth; a tie goes the way the database backend
\* rounds it (half-even in Django's format_number, half-up in PostgreSQL).
quantize(n, d) ==
    {q \in {n \div d, n \div d + 1} : 2 * q * d - 2 * n <= d /\ 2 * n - 2 * q * d <= d}

\* Job.duration_hours times Job.hourly_rate: the amount put on hold.
estimated_amount(j) == j.hourly_rate * j.duration_hours

\* CheckIn.worked_hours times Job.hourly_rate: the amount captured.
actual_amount(worked_hours, j) == worked_hours * j.hourly_rate

\* The rows create_escrow_for_application inserts after a successful create-hold.
\* (Transaction keyed by the application, status pending, the estimated amount
\* and its fees; Escrow held for the estimated amount.)
create_escrow_rows(a) ==
    LET amount == estimated_amount(job)
        fees == calculate_fees(amount) IN
    \E fee \in quantize(fees.platform_fee, 100), wp \in quantize(fees.worker_payout, 100) :
        /\ psp_intents' = create_payment_intent(a)
        /\ transactions' = Append(transactions,
               [application |-> a, status |-> "pending",
                payment_intent_id |-> Len(psp_intents) + 1, amount |-> amount,
                platform_fee |-> fee, worker_payout |-> wp, completed_at |-> 0])
        /\ escrows' = Append(escrows,
               [transaction |-> Len(transactions) + 1, application |-> a, status |-> "held",
                held_amount |-> amount])

\* ------------------------------------------------------------- applications
\* An index that admits every row.
admits_any(w) == TRUE

\* unique_together = [('job', 'worker')]: the index admits a row for worker w.
unique_together(w) == \A i \in DOMAIN applications : applications[i].worker # w

\* What a call of NotificationService or FraudService inside a handler comes to:
\* it went through, it raised without a failed database statement (no profile,
\* the push adapter failed), or one of its own statements (the insert of the
\* Notification or SuspiciousActivity row, the count of recent rows) failed in
\* the database.  The handler catches and logs every exception.
SinkResults == {"sent", "raised", "database error"}

\* The outcomes that leave the handler's transaction usable.
Swallowed == {"sent", "raised"}

\* The exit of the handler's transaction.atomic block: it commits, unless a
\* statement failed inside the block, which marks the transaction for
\* rollback; the handler has caught the exception, so it returns normally and
\* its rows are rolled back.
commits(sink) == sink \in Swallowed

\* JobApplication.objects.filter(job=job, worker=worker).exists()
application_exists(w) == \E i \in DOMAIN applications : applications[i].worker = w

\* The request of worker w, whose profile is verified or not, and what
\* apply_to_job reads: the job, and whether the worker has an application.
apply_to_job_load(p, w) ==
    /\ IsIdle(p)
    /\ \E verified \in BOOLEAN :
        req' = [req EXCEPT ![p] = [op |-> "apply_to_job", phase |-> "begun", target |-> w,
                                  job_status |-> job.status, full |-> is_full(job),
                                  exists |-> application_exists(w),
                                  verified |-> verified]]
    /\ UNCHANGED <<db, psp, aborts>>

apply_to_job_sinks(p, sink) ==
    /\ IsBegun(p, "apply_to_job")
    /\ LET w == req[p].target
           verified == req[p].verified IN
        IF req[p].job_status # "published" THEN
            /\ req' = [req EXCEPT ![p] = Done("apply_to_job", w, "ValueError", "not published")]
            /\ UNCHANGED <<db, psp, aborts>>
        ELSE IF req[p].full THEN
            /\ req' = [req EXCEPT ![p] = Done("apply_to_job", w, "ValueError", "full")]
            /\ UNCHANGED <<db, psp, aborts>>
        ELSE IF req[p].exists THEN
            /\ req' = [req EXCEPT ![p] = Done("apply_to_job", w, "ValueError", "already applied")]
            /\ UNCHANGED <<db, psp, aborts>>
        ELSE IF ~verified THEN
            /\ req' = [req EXCEPT ![p] = Done("apply_to_job", w, "ValueError", "not verified")]
            /\ UNCHANGED <<db, psp, aborts>>
        ELSE IF ~unique_together(w) THEN
            /\ req' = [req EXCEPT ![p] = Done("apply_to_job", w, "IntegrityError", "")]
            /\ UNCHANGED <<db, psp, aborts>>
        ELSE
            /\ applications' = IF commits(sink)
                               THEN Append(applications, [worker |-> w, status |-> "pending"])
                               ELSE applications
            /\ req' = [req EXCEPT ![p] = Done("apply_to_job", w, "ok", "")]
            /\ UNCHANGED <<job, checkins, transactions, escrows, payouts, psp, aborts>>

\* apply_to_job with check_application_velocity and
\* notify_application_received delivered or raising harmlessly.
apply_to_job(p) == \E sink \in Swallowed : apply_to_job_sinks(p, sink)

\* The view's get_object() and the lazy load of application.job.
accept_application_load(p, a) ==
    /\ IsIdle(p)
    /\ a \in DOMAIN applications
    /\ req' = [req EXCEPT ![p] = [op |-> "accept_application", phase |-> "begun", target |-> a,
                                  status |-> applications[a].status,
                                  full |-> is_full(job)]]
    /\ UNCHANGED <<db, psp, aborts>>

\* JobApplication.accept on the loaded instance: its guards.
accept_guard(inst_status, inst_job_is_full) ==
    IF inst_status # "pending" THEN "not pending"
    ELSE IF inst_job_is_full THEN "full"
    ELSE "ok"

\* Job.objects.filter(id=...).update(workers_accepted=F('workers_accepted') + 1)
increment_workers_accepted(row) == [row EXCEPT !.workers_accepted = @ + 1]

accept_application(p) ==
    /\ IsBegun(p, "accept_application")
    /\ LET a == req[p].target
           g == accept_guard(req[p].status, req[p].full) IN
       \E owner \in BOOLEAN, hold_ok \in BOOLEAN :
        IF ~owner THEN
            /\ req' = [req EXCEPT ![p] = Done("accept_application", a, "PermissionError", "")]
            /\ UNCHANGED <<db, psp, aborts>>
        ELSE IF g # "ok" THEN
            /\ req' = [req EXCEPT ![p] = Done("accept_application", a, "ValueError", g)]
            /\ UNCHANGED <<db, psp, aborts>>
        ELSE
            /\ Free(p, {<<"job", 0>>})
            /\ applications' = [applications EXCEPT ![a].status = "accepted"]
            /\ job' = increment_workers_accepted(job)
            /\ IF ~idempotency_key_unique(a) THEN
                   /\ req' = [req EXCEPT ![p] = Done("accept_application", a, "ok", "existing")]
                   /\ UNCHANGED <<transactions, escrows, psp_intents>>
               ELSE IF hold_ok THEN
                   /\ create_escrow_rows(a)
                   /\ req' = [req EXCEPT ![p] = Done("accept_application", a, "ok", "created")]
               ELSE
                   /\ req' = [req EXCEPT ![p] = Done("accept_application", a, "ok", "failed")]
                   /\ UNCHANGED <<transactions, escrows, psp_intents>>
            /\ UNCHANGED <<checkins, payouts, psp_transfers, aborts>>

\* PaymentService.create_escrow_for_application called on its own for an accepted
\* application (the recovery the comment in accept_application leaves for later):
\* the lookup by idempotency key.
create_escrow_for_application_load(p, a) ==
    /\ IsIdle(p)
    /\ a \in DOMAIN applications
    /\ applications[a].status = "accepted"
    /\ req' = [req EXCEPT ![p] = [op |-> "create_escrow_for_application", phase |-> "begun",
                                  target |-> a, existing |-> ~idempotency_key_unique(a)]]
    /\ UNCHANGED <<db, psp, aborts>>

create_escrow_for_application(p) ==
    /\ IsBegun(p, "create_escrow_for_application")
    /\ LET a == req[p].target IN
       \E hold_ok \in BOOLEAN :
        IF req[p].existing THEN
            /\ req' = [req EXCEPT ![p] =
                           Done("create_escrow_for_application", a, "ok", "existing")]
            /\ UNCHANGED <<db, psp, aborts>>
        ELSE IF ~hold_ok THEN
            /\ req' = [req EXCEPT ![p] =
                           Done("create_escrow_for_application", a, "PSPError", "")]
            /\ UNCHANGED <<db, psp, aborts>>
        ELSE IF ~idempotency_key_unique(a) THEN
            \* the hold exists at the PSP; the INSERT is rejected and rolled back
            /\ psp_intents' = create_payment_intent(a)
            /\ req' = [req EXCEPT ![p] =
                           Done("create_escrow_for_application", a, "IntegrityError", "")]
            /\ UNCHANGED <<db, psp_transfers, aborts>>
        ELSE
            /\ create_escrow_rows(a)
            /\ req' = [req EXCEPT ![p] =
                           Done("create_escrow_for_application", a, "ok", "created")]
            /\ UNCHANGED <<job, applications, checkins, payouts, psp_transfers, aborts>>

\* ------------------------------------------------------------- cancel and refund
cancel_job_load(p) == load_job(p, "cancel_job")

\* Transaction.objects.filter(job=job, status__in=['pending', 'held'])
refundable_transactions ==
    {t \in DOMAIN transactions : transactions[t].status \in {"pending", "held"}}

any_status(inst_status, t) == TRUE

\* refund_escrow's guards on a transaction instance and its escrow (trans.escrow).
refund_guard(inst_status, t) ==
    /\ inst_status \in {"pending", "held"}
    /\ \E e \in EscrowsOfTransaction(t) : escrows[e].status = "held"

\* cancel_job up to the first PSP call: ownership, the transition (the Job row is
\* written and stays locked), the transactions to refund and their escrows.
cancel_job_transition(p) ==
    /\ IsBegun(p, "cancel_job")
    /\ \E owner \in BOOLEAN :
        IF ~owner THEN
            /\ req' = [req EXCEPT ![p] = Done("cancel_job", 0, "PermissionError", "")]
            /\ UNCHANGED <<db, psp, aborts>>
        ELSE IF ~can_transition_to(req[p].job.status, "cancelled") THEN
            /\ req' = [req EXCEPT ![p] = Done("cancel_job", 0, "InvalidTransition", "")]
            /\ UNCHANGED <<db, psp, aborts>>
        ELSE
            /\ Free(p, {<<"job", 0>>})
            /\ LET held == {t \in refundable_transactions :
                               refund_guard(transactions[t].status, t)} IN
               IF held = {} THEN
                   /\ job' = transition_to(req[p].job, "cancelled")
                   /\ req' = [req EXCEPT ![p] =
                          Done("cancel_job", 0, "ok", "")
                              @@ [attempted |-> refundable_transactions, refunded |-> {}]]
                   /\ UNCHANGED <<applications, checkins, transactions, escrows, payouts,
                                  psp, aborts>>
               ELSE
                   /\ req' = [req EXCEPT ![p] =
                          [op |-> "cancel_job", phase |-> "mid", target |-> 0,
                           job |-> req[p].job, held |-> held,
                           attempted |-> refundable_transactions,
                           rows |-> [t \in held |-> transactions[t]]]]
                   /\ UNCHANGED <<db, psp, aborts>>

\* The refunds (PaymentService.refund_escrow per transaction) and the commit.
\* attempted: the transactions refund_escrow was called for; refunded: those
\* whose PSP refund succeeded; a failed refund is rolled back to its savepoint
\* and leaves no row changed.
cancel_job(p) ==
    /\ IsMid(p, "cancel_job")
    /\ Free(p, {<<"transaction", t>> : t \in req[p].held})
    /\ \E refunded \in SUBSET req[p].held :
        /\ transactions' = [t \in DOMAIN transactions |->
               IF t \in refunded THEN [req[p].rows[t] EXCEPT !.status = "refunded"]
               ELSE transactions[t]]
        /\ escrows' = [e \in DOMAIN escrows |->
               IF escrows[e].transaction \in refunded
               THEN [escrows[e] EXCEPT !.status = "refunded"] ELSE escrows[e]]
        /\ psp_intents' = [i \in DOMAIN psp_intents |->
               IF \E t \in refunded : req[p].rows[t].payment_intent_id = i
               THEN [psp_intents[i] EXCEPT !.refunds = @ + 1] ELSE psp_intents[i]]
        /\ job' = transition_to(req[p].job, "cancelled")
        /\ req' = [req EXCEPT ![p] =
               Done("cancel_job", 0, "ok",
                    IF refunded = req[p].held THEN "refunded" ELSE "refund failed")
                   @@ [attempted |-> req[p].attempted, refunded |-> refunded]]
        /\ UNCHANGED <<applications, checkins, payouts, psp_transfers, aborts>>

\* ------------------------------------------------------------- check-in
\* CheckInService.MAX_CHECKIN_DISTANCE_KM = 0.1, in metres.
MAX_CHECKIN_DISTANCE == 100

\* The distances, in metres, from the job location that a position is tried at.
Distances == {0, 99, 100, 101}

\* The positions a request can carry: latitude and longitude in degrees, and
\* the haversine_distance of that point from the job location.  The corners of
\* the valid range, and a point just outside each side of it.
Positions ==
    {[lat |-> 90, lng |-> 180, distance |-> d] : d \in Distances}
        \cup {[lat |-> x[1], lng |-> x[2], distance |-> 0] :
                 x \in {<<-90, -180>>, <<-91, 0>>, <<91, 0>>, <<0, -181>>, <<0, 181>>}}

\* The positions a check-out request can carry: a corner of the valid range, a
\* latitude outside it and a longitude outside it.
CheckOutPositions ==
    {[lat |-> -90, lng |-> -180], [lat |-> 91, lng |-> 0], [lat |-> 0, lng |-> -181]}

\* core.utils.geo.validate_coordinates
validate_coordinates(lat, lng) ==
    /\ -90 <= lat /\ lat <= 90
    /\ -180 <= lng /\ lng <= 180

beyond_or_at(distance) == distance >= MAX_CHECKIN_DISTANCE

\* check_in's test of the distance to the job location.
too_far(distance) == distance > MAX_CHECKIN_DISTANCE

CheckInsOf(a) == {c \in DOMAIN checkins : checkins[c].application = a}

\* CheckIn.application is a OneToOneField: the index admits a row for a.
checkin_unique(a) == CheckInsOf(a) = {}

check_in_load(p, a) ==
    /\ IsIdle(p)
    /\ a \in DOMAIN applications
    /\ \E at \in Positions :
       req' = [req EXCEPT ![p] = [op |-> "check_in", phase |-> "begun", target |-> a,
                                  status |-> applications[a].status,
                                  has_checkin |-> CheckInsOf(a) # {},
                                  job |-> job_instance, at |-> at]]
    /\ UNCHANGED <<db, psp, aborts>>

ends_job(inst) == transition_to(inst, "completed")

\* JobService.start_job on the job instance the check-in holds.
start_job(inst) == transition_to(inst, "in_progress")

check_in_sinks(p, sink) ==
    /\ IsBegun(p, "check_in")
    /\ LET a == req[p].target IN
        IF req[p].status # "accepted" THEN
            /\ req' = [req EXCEPT ![p] = Done("check_in", a, "ValueError", "not accepted")]
            /\ UNCHANGED <<db, psp, aborts>>
        ELSE IF req[p].has_checkin THEN
            /\ req' = [req EXCEPT ![p] = Done("check_in", a, "ValueError", "already checked in")]
            /\ UNCHANGED <<db, psp, aborts>>
        ELSE IF ~validate_coordinates(req[p].at.lat, req[p].at.lng) THEN
            /\ req' = [req EXCEPT ![p] = Done("check_in", a, "ValueError", "invalid coordinates")]
            /\ UNCHANGED <<db, psp, aborts>>
        ELSE IF too_far(req[p].at.distance) THEN
            /\ req' = [req EXCEPT ![p] = Done("check_in", a, "ValueError", "too far")]
            /\ UNCHANGED <<db, psp, aborts>>
        ELSE IF ~checkin_unique(a) THEN
            /\ req' = [req EXCEPT ![p] = Done("check_in", a, "IntegrityError", "")]
            /\ UNCHANGED <<db, psp, aborts>>
        ELSE
            /\ checkins' = IF commits(sink)
                           THEN Append(checkins, [application |-> a, checked_out_at |-> 0,
                                                  worked_hours |-> 0, check_out_at |-> <<>>])
                           ELSE checkins
            /\ IF req[p].job.status = "published"
               THEN /\ Free(p, {<<"job", 0>>})
                    /\ job' = IF commits(sink) THEN start_job(req[p].job) ELSE job
               ELSE UNCHANGED job
            /\ req' = [req EXCEPT ![p] = Done("check_in", a, "ok", "")]
            /\ UNCHANGED <<applications, transactions, escrows, payouts, psp, aborts>>

\* check_in with notify_worker_checked_in delivered or raising harmlessly.
check_in(p) == \E sink \in Swallowed : check_in_sinks(p, sink)

\* ------------------------------------------------------------- check-out and release
\* release_escrow_after_checkout's guards, on the check-in instance and the
\* escrow row it reads: "ok" or the ValueError it raises.
release_guard(is_checked_out, a) ==
    IF ~is_checked_out THEN "not checked out"
    ELSE IF EscrowsOf(a) = {} THEN "no escrow"
    ELSE IF escrows[CHOOSE e \in EscrowsOf(a) : TRUE].status # "held" THEN "escrow not held"
    ELSE "ok"

stays_held(e) == escrows

\* Escrow.release() on the loaded instance (its status was "held" when loaded):
\* save(update_fields=['status', 'released_at']).
release(e) == [escrows EXCEPT ![e].status = "released"]

stamps_only(c, h, at) ==
    [checkins EXCEPT ![c].checked_out_at = @ + 1, ![c].worked_hours = h]

\* CheckIn.checkout on the loaded instance: checked_out_at = now (a later
\* stamp), so that worked_hours is the time h since checked_in_at, and the
\* position in check_out_lat and check_out_lng.
checkout(c, h, at) ==
    [checkins EXCEPT ![c].checked_out_at = @ + 1, ![c].worked_hours = h,
                     ![c].check_out_at = <<at.lat, at.lng>>]

release_only(t, e, transfer_id, worked_hours) ==
    /\ escrows' = release(e)
    /\ UNCHANGED <<transactions, payouts>>

\* What release_escrow_after_checkout writes once the capture succeeded:
\* the transaction (actual amount and its fees, status held), the payout of
\* trans.worker_payout (processing when the transfer succeeded, failed
\* otherwise), the escrow (released).
release_rows(t, e, transfer_id, worked_hours) ==
    LET amount == actual_amount(worked_hours, job)
        fees == calculate_fees(amount) IN
    \E fee \in quantize(fees.platform_fee, 100), wp \in quantize(fees.worker_payout, 100) :
        /\ transactions' = [transactions EXCEPT ![t].amount = amount,
                                                ![t].platform_fee = fee,
                                                ![t].worker_payout = wp,
                                                ![t].status = "held"]
        /\ payouts' = Append(payouts,
               [transaction |-> t, amount |-> wp, completed_at |-> 0,
                status |-> IF transfer_id # 0 THEN "processing" ELSE "failed",
                transfer_id |-> transfer_id,
                retry_count |-> IF transfer_id # 0 THEN 0 ELSE 1,
                failed_at |-> IF transfer_id # 0 THEN 0 ELSE 1,
                failure_reason |-> IF transfer_id # 0 THEN "" ELSE "transfer failed"])
        /\ escrows' = release(e)

\* What the PSP has done once release_escrow_after_checkout's capture succeeded
\* and _create_payout asked for the transfer: the capture, and the transfer
\* when the PSP took it.
capture_and_transfer(t, transfer_ok) ==
    /\ psp_intents' = capture_payment(psp_intents, transactions[t].payment_intent_id)
    /\ psp_transfers' = IF transfer_ok THEN create_transfer(t, Len(payouts) + 1)
                        ELSE psp_transfers

\* The request after capture_and_transfer: its rows are written, not committed.
Sent(r, transfer_ok) ==
    [r EXCEPT !.phase = "sent"]
        @@ [transfer_id |-> IF transfer_ok THEN Len(psp_transfers) + 1 ELSE 0]

check_out_load(p, c) ==
    /\ IsIdle(p)
    /\ c \in DOMAIN checkins
    /\ \E at \in CheckOutPositions :
       req' = [req EXCEPT ![p] = [op |-> "check_out", phase |-> "begun", target |-> c,
                                  checked_out_at |-> checkins[c].checked_out_at,
                                  at |-> at]]
    /\ UNCHANGED <<db, psp, aborts>>

\* check_out up to the PSP capture: validation, CheckIn.checkout (the CheckIn row
\* is written and stays locked), then release_escrow_after_checkout's lookup of
\* the escrow and its first trans.save() (the Transaction row stays locked).
check_out_checkout(p) ==
    /\ IsBegun(p, "check_out")
    /\ LET c == req[p].target
           a == checkins[c].application
           g == release_guard(TRUE, a) IN
       \E h \in WorkedHours :
        IF ~validate_coordinates(req[p].at.lat, req[p].at.lng) THEN
            /\ req' = [req EXCEPT ![p] = Done("check_out", c, "ValueError", "invalid coordinates")]
            /\ UNCHANGED <<db, psp, aborts>>
        ELSE IF req[p].checked_out_at # 0 THEN
            /\ req' = [req EXCEPT ![p] = Done("check_out", c, "ValueError", "already checked out")]
            /\ UNCHANGED <<db, psp, aborts>>
        ELSE
            /\ Free(p, {<<"checkin", c>>})
            /\ IF g # "ok" THEN
                   /\ checkins' = checkout(c, h, req[p].at)
                   /\ req' = [req EXCEPT ![p] = Done("check_out", c, "ok", g)]
                   /\ UNCHANGED <<job, applications, transactions, escrows, payouts,
                                  psp, aborts>>
               ELSE
                   LET e == CHOOSE x \in EscrowsOf(a) : TRUE IN
                   /\ Free(p, {<<"transaction", escrows[e].transaction>>})
                   /\ req' = [req EXCEPT ![p] =
                          [req[p] EXCEPT !.phase = "mid"]
                              @@ [escrow |-> e, trans |-> escrows[e].transaction,
                                  worked_hours |-> h]]
                   /\ UNCHANGED <<db, psp, aborts>>

\* The capture and the transfer of the check-out.  A failed capture rolls
\* release_escrow_after_checkout back to its savepoint; the check-out itself
\* is committed.
check_out_capture(p) ==
    /\ IsMid(p, "check_out")
    /\ LET c == req[p].target IN
       \E capture_ok \in BOOLEAN, transfer_ok \in BOOLEAN :
        IF capture_ok THEN
            /\ capture_and_transfer(req[p].trans, transfer_ok)
            /\ req' = [req EXCEPT ![p] = Sent(req[p], transfer_ok)]
            /\ UNCHANGED <<db, aborts>>
        ELSE
            /\ checkins' = checkout(c, req[p].worked_hours, req[p].at)
            /\ req' = [req EXCEPT ![p] = Done("check_out", c, "ok", "capture failed")]
            /\ UNCHANGED <<job, applications, transactions, escrows, payouts, psp, aborts>>

\* The payout row, Escrow.release() and the commit of the check-out.
check_out(p) ==
    /\ IsSent(p, "check_out")
    /\ checkins' = checkout(req[p].target, req[p].worked_hours, req[p].at)
    /\ release_rows(req[p].trans, req[p].escrow, req[p].transfer_id, req[p].worked_hours)
    /\ req' = [req EXCEPT ![p] = Done("check_out", req[p].target, "ok", "released")]
    /\ UNCHANGED <<job, applications, psp, aborts>>

\* The request dies before the commit (the worker is killed, the database
\* connection is lost), after the PSP captured or after it also took the
\* transfer: transaction.atomic rolls every row back, what the PSP did stays.
check_out_abort(p) ==
    /\ IsMid(p, "check_out") \/ IsSent(p, "check_out")
    /\ aborts < MaxAborts
    /\ aborts' = aborts + 1
    /\ psp_intents' = IF IsMid(p, "check_out")
                       THEN capture_payment(psp_intents,
                                transactions[req[p].trans].payment_intent_id)
                       ELSE psp_intents
    /\ req' = [req EXCEPT ![p] = Done("check_out", req[p].target, "aborted", "")]
    /\ UNCHANGED <<db, psp_transfers>>

\* PaymentService.release_escrow_after_checkout called again for a check-in (the
\* retry the comments in check_out and in the function leave for later): the
\* check-in instance and the escrow it reads.
release_escrow_after_checkout_load(p, c) ==
    /\ IsIdle(p)
    /\ c \in DOMAIN checkins
    /\ LET a == checkins[c].application
           g == release_guard(checkins[c].checked_out_at # 0, a) IN
       /\ req' = [req EXCEPT ![p] =
              IF g # "ok" THEN Done("release_escrow_after_checkout", c, "ValueError", g)
              ELSE [op |-> "release_escrow_after_checkout", phase |-> "begun",
                    target |-> c, worked_hours |-> checkins[c].worked_hours,
                    escrow |-> CHOOSE e \in EscrowsOf(a) : TRUE,
                    trans |-> escrows[CHOOSE e \in EscrowsOf(a) : TRUE].transaction]]
    /\ UNCHANGED <<db, psp, aborts>>

\* trans.save() with the actual amount (the Transaction row stays locked), the
\* capture and the transfer.
release_escrow_after_checkout_capture(p) ==
    /\ IsBegun(p, "release_escrow_after_checkout")
    /\ Free(p, {<<"transaction", req[p].trans>>})
    /\ \E capture_ok \in BOOLEAN, transfer_ok \in BOOLEAN :
        IF capture_ok THEN
            /\ capture_and_transfer(req[p].trans, transfer_ok)
            /\ req' = [req EXCEPT ![p] = Sent(req[p], transfer_ok)]
            /\ UNCHANGED <<db, aborts>>
        ELSE
            /\ req' = [req EXCEPT ![p] =
                   Done("release_escrow_after_checkout", req[p].target, "PSPError",
                        "capture failed")]
            /\ UNCHANGED <<db, psp, aborts>>

\* The payout row, Escrow.release() and the commit.
release_escrow_after_checkout(p) ==
    /\ IsSent(p, "release_escrow_after_checkout")
    /\ release_rows(req[p].trans, req[p].escrow, req[p].transfer_id, req[p].worked_hours)
    /\ req' = [req EXCEPT ![p] =
           Done("release_escrow_after_checkout", req[p].target, "ok", "released")]
    /\ UNCHANGED <<job, applications, checkins, psp, aborts>>

release_escrow_after_checkout_abort(p) ==
    /\ \/ IsBegun(p, "release_escrow_after_checkout")
          /\ Free(p, {<<"transaction", req[p].trans>>})
       \/ IsSent(p, "release_escrow_after_checkout")
    /\ aborts < MaxAborts
    /\ aborts' = aborts + 1
    /\ psp_intents' = IF IsBegun(p, "release_escrow_after_checkout")
                       THEN capture_payment(psp_intents,
                                transactions[req[p].trans].payment_intent_id)
                       ELSE psp_intents
    /\ req' = [req EXCEPT ![p] =
           Done("release_escrow_after_checkout", req[p].target, "aborted", "")]
    /\ UNCHANGED <<db, psp_transfers>>

\* ------------------------------------------------------------- reject and withdraw
reject_application_load(p, a) ==
    /\ IsIdle(p)
    /\ a \in DOMAIN applications
    /\ req' = [req EXCEPT ![p] = [op |-> "reject_application", phase |-> "begun",
                                  target |-> a, status |-> applications[a].status]]
    /\ UNCHANGED <<db, psp, aborts>>

reject_application_sinks(p, sink) ==
    /\ IsBegun(p, "reject_application")
    /\ LET a == req[p].target IN
       \E owner \in BOOLEAN :
        IF ~owner THEN
            /\ req' = [req EXCEPT ![p] = Done("reject_application", a, "PermissionError", "")]
            /\ UNCHANGED <<db, psp, aborts>>
        ELSE IF req[p].status # "pending" THEN
            /\ req' = [req EXCEPT ![p] = Done("reject_application", a, "ValueError", "not pending")]
            /\ UNCHANGED <<db, psp, aborts>>
        ELSE
            /\ applications' = IF commits(sink)
                               THEN [applications EXCEPT ![a].status = "rejected"]
                               ELSE applications
            /\ req' = [req EXCEPT ![p] = Done("reject_application", a, "ok", "")]
            /\ UNCHANGED <<job, checkins, transactions, escrows, payouts, psp, aborts>>

\* reject_application with notify_application_rejected delivered or raising
\* harmlessly.
reject_application(p) == \E sink \in Swallowed : reject_application_sinks(p, sink)

\* JobApplicationViewSet.destroy: get_object().
withdraw_load(p, a) ==
    /\ IsIdle(p)
    /\ a \in DOMAIN applications
    /\ req' = [req EXCEPT ![p] = [op |-> "withdraw", phase |-> "begun",
                                  target |-> a, status |-> applications[a].status]]
    /\ UNCHANGED <<db, psp, aborts>>

\* JobApplication.withdraw, first statement (the view opens no transaction, each
\* statement commits on its own): the decrement of an accepted application.
\* workers_accepted is a PositiveIntegerField: the row's CHECK rejects a negative.
withdraw_decrement(p) ==
    /\ IsBegun(p, "withdraw")
    /\ LET a == req[p].target IN
       \E by_worker \in BOOLEAN :
        IF ~by_worker THEN
            /\ req' = [req EXCEPT ![p] = Done("withdraw", a, "PermissionDenied", "")]
            /\ UNCHANGED <<db, psp, aborts>>
        ELSE IF req[p].status # "accepted" THEN
            /\ applications' = [applications EXCEPT ![a].status = "withdrawn"]
            /\ req' = [req EXCEPT ![p] = Done("withdraw", a, "ok", "")]
            /\ UNCHANGED <<job, checkins, transactions, escrows, payouts, psp, aborts>>
        ELSE IF job.workers_accepted = 0 THEN
            /\ req' = [req EXCEPT ![p] = Done("withdraw", a, "IntegrityError", "")]
            /\ UNCHANGED <<db, psp, aborts>>
        ELSE
            /\ Free(p, {<<"job", 0>>})
            /\ job' = [job EXCEPT !.workers_accepted = @ - 1]
            /\ req' = [req EXCEPT ![p] = [op |-> "withdraw", phase |-> "decremented",
                                          target |-> a, status |-> req[p].status]]
            /\ UNCHANGED <<applications, checkins, transactions, escrows, payouts,
                           psp, aborts>>

\* JobApplication.withdraw, second statement: status = withdrawn.
withdraw(p) ==
    /\ req[p].op = "withdraw" /\ req[p].phase = "decremented"
    /\ applications' = [applications EXCEPT ![req[p].target].status = "withdrawn"]
    /\ req' = [req EXCEPT ![p] = Done("withdraw", req[p].target, "ok", "decremented")]
    /\ UNCHANGED <<job, checkins, transactions, escrows, payouts, psp, aborts>>

\* ------------------------------------------------------------- specifications
\* Applications: publish, apply, accept, reject, withdraw.
NextApplications ==
    \E p \in Procs :
        \/ publish_job_load(p)
        \/ publish_job(p)
        \/ \E w \in Workers : apply_to_job_load(p, w)
        \/ apply_to_job(p)
        \/ \E a \in DOMAIN applications : accept_application_load(p, a)
        \/ accept_application(p)
        \/ \E a \in DOMAIN applications : reject_application_load(p, a)
        \/ reject_application(p)
        \/ \E a \in DOMAIN applications : withdraw_load(p, a)
        \/ withdraw_decrement(p)
        \/ withdraw(p)

SpecApplications == Init /\ [][NextApplications]_vars

AcceptedApplications == {a \in DOMAIN applications : applications[a].status = "accepted"}

\* C1: while every accepted application has been counted once, workers_accepted
\* does not exceed workers_needed, however the accepts of distinct pending
\* applications interleave.
C1_WorkersAcceptedWithinNeeded ==
    job.workers_accepted = Cardinality(AcceptedApplications)
        => job.workers_accepted <= job.workers_needed

\* Apply on its own: a new job, or a published job with at most one earlier
\* application, in any status an application can have (an accepted one is
\* counted in workers_accepted).
InitApply ==
    /\ applications \in {<<>>} \cup
           {<<[worker |-> w, status |-> st]>> : w \in Workers, st \in ApplicationStatus}
    /\ job \in {[status |-> "published", published_at |-> 1,
                 workers_needed |-> WorkersNeeded,
                 workers_accepted |-> Cardinality(AcceptedApplications),
                 hourly_rate |-> WholeRate, duration_hours |-> DurationHours]}
              \cup (IF applications = <<>>
                    THEN {[status |-> "draft", workers_needed |-> WorkersNeeded,
                           workers_accepted |-> 0, published_at |-> 0,
                           hourly_rate |-> WholeRate, duration_hours |-> DurationHours]}
                    ELSE {})
    /\ checkins = <<>>
    /\ transactions = <<>>
    /\ escrows = <<>>
    /\ payouts = <<>>
    /\ psp_intents = <<>>
    /\ psp_transfers = <<>>
    /\ req = [p \in Procs |-> Idle]
    /\ aborts = 0

NextApply ==
    \E p \in Procs :
        \/ \E w \in Workers : apply_to_job_load(p, w)
        \/ apply_to_job(p)

SpecApply == InitApply /\ [][NextApply]_vars

ApplicationsOf(w) == {a \in DOMAIN applications : applications[a].worker = w}

\* C2: a worker never has two applications for the job; once the worker has one,
\* no step adds or removes a row of that worker, and an apply_to_job of that
\* worker does not end with success, whatever the status of the existing row.
C2_OneApplicationPerPair ==
    /\ \A w \in Workers : Cardinality(ApplicationsOf(w)) <= 1
    /\ [][/\ \A w \in Workers :
               /\ Cardinality(ApplicationsOf(w)') <= 1
               /\ ApplicationsOf(w) # {} => ApplicationsOf(w)' = ApplicationsOf(w)
           /\ \A p \in Procs :
               (/\ req'[p] # req[p]
                /\ req'[p].op = "apply_to_job" /\ req'[p].phase = "done"
                /\ ApplicationsOf(req'[p].target) # {})
               => req'[p].outcome # "ok"]_vars

\* Two concurrent applies of one worker: the second was rejected by the unique
\* index and the worker has one row.
C2_ConcurrentApplyRejected ==
    \E p \in Procs :
        /\ IsDone(p, "apply_to_job")
        /\ req[p].outcome = "IntegrityError"
        /\ Cardinality(ApplicationsOf(req[p].target)) = 1

\* Hold creation: publish, apply, accept, create_escrow_for_application.
NextEscrow ==
    \E p \in Procs :
        \/ publish_job_load(p)
        \/ publish_job(p)
        \/ \E w \in Workers : apply_to_job_load(p, w)
        \/ apply_to_job(p)
        \/ \E a \in DOMAIN applications : accept_application_load(p, a)
        \/ accept_application(p)
        \/ \E a \in DOMAIN applications : create_escrow_for_application_load(p, a)
        \/ create_escrow_for_application(p)

SpecEscrow == Init /\ [][NextEscrow]_vars

\* C3: an application has at most one Transaction and at most one Escrow, and no
\* invocation of create_escrow_for_application fails because another invocation
\* has created them (it returns the existing ones).
C3_SecondCallReturnsFirst ==
    /\ \A a \in DOMAIN applications :
           Cardinality(TransactionsOf(a)) <= 1 /\ Cardinality(EscrowsOf(a)) <= 1
    /\ \A p \in Procs :
           IsDone(p, "create_escrow_for_application") => req[p].outcome # "IntegrityError"

IntentsOf(a) == {i \in DOMAIN psp_intents : psp_intents[i].application = a}

\* C4: the PSP has at most one payment intent per application, and every intent
\* at the PSP is the payment_intent_id of a Transaction of its application.
C4_OneHoldPerApplication ==
    /\ \A a \in DOMAIN applications : Cardinality(IntentsOf(a)) <= 1
    /\ \A i \in DOMAIN psp_intents :
           \E t \in TransactionsOf(psp_intents[i].application) :
               transactions[t].payment_intent_id = i

\* The steps of one process from publication to check-in, for the workers W.
Engage(p, W) ==
    \/ publish_job_load(p)
    \/ publish_job(p)
    \/ \E w \in W : apply_to_job_load(p, w)
    \/ apply_to_job(p)
    \/ \E a \in DOMAIN applications : accept_application_load(p, a)
    \/ accept_application(p)
    \/ \E a \in DOMAIN applications : check_in_load(p, a)
    \/ check_in(p)

\* The steps of a check-out and of a release called again.
Release(p) ==
    \/ \E c \in DOMAIN checkins : check_out_load(p, c)
    \/ check_out_checkout(p)
    \/ check_out_capture(p)
    \/ check_out(p)
    \/ \E c \in DOMAIN checkins : release_escrow_after_checkout_load(p, c)
    \/ release_escrow_after_checkout_capture(p)
    \/ release_escrow_after_checkout(p)

\* Release, one request at a time, with attempts that die after the capture.
NextRetry ==
    \E p \in {1} :
        \/ Engage(p, Workers)
        \/ Release(p)
        \/ check_out_abort(p)
        \/ release_escrow_after_checkout_abort(p)

SpecRetry == Init /\ [][NextRetry]_vars

TransfersOf(t) == {x \in DOMAIN psp_transfers : psp_transfers[x].transaction = t}

\* C5: for every released Escrow the PSP captured its payment intent exactly
\* once, its Transaction has exactly one Payout and the PSP was asked for at
\* most one transfer, whatever attempts (failed, aborted, repeated) came before.
C5_ReleasedCapturedOnce ==
    \A e \in DOMAIN escrows :
        escrows[e].status = "released" =>
            LET t == escrows[e].transaction IN
            /\ psp_intents[transactions[t].payment_intent_id].captures = 1
            /\ Cardinality(PayoutsOf(t)) = 1
            /\ Cardinality(TransfersOf(t)) <= 1

\* Release, concurrent requests.
NextRelease == \E p \in Procs : Engage(p, Settled) \/ Release(p)

SpecRelease == Init /\ [][NextRelease]_vars

\* C6: no Transaction (no application) ever has two Payouts, however the release
\* attempts for its check-in interleave.
C6_NoDoublePayout ==
    \A t \in DOMAIN transactions : Cardinality(PayoutsOf(t)) <= 1

\* Settlement: check-out (release) against cancel (refund).
NextSettle ==
    \E p \in Procs :
        \/ Engage(p, Settled)
        \/ \E c \in DOMAIN checkins : check_out_load(p, c)
        \/ check_out_checkout(p)
        \/ check_out_capture(p)
        \/ check_out(p)
        \/ cancel_job_load(p)
        \/ cancel_job_transition(p)
        \/ cancel_job(p)

SpecSettle == Init /\ [][NextSettle]_vars

\* C7: every change of an Escrow's status is held -> released or held ->
\* refunded (released and refunded are never left, so never both).
C7_EscrowTransitions ==
    [][\A e \in DOMAIN escrows :
           escrows'[e].status # escrows[e].status
               => /\ escrows[e].status = "held"
                  /\ escrows'[e].status \in {"released", "refunded"}]_vars

\* C8: no payment intent is both captured and refunded at the PSP, and no
\* refunded intent has a transfer to the worker.
C8_ReleaseOrRefund ==
    \A t \in DOMAIN transactions :
        LET i == transactions[t].payment_intent_id IN
        psp_intents[i].refunds > 0
            => psp_intents[i].captures = 0 /\ TransfersOf(t) = {}

\* Job lifecycle: publish, check-in auto-start, complete, cancel.
NextJob ==
    \E p \in Procs :
        \/ Engage(p, Settled)
        \/ complete_job_load(p)
        \/ complete_job(p)
        \/ cancel_job_load(p)
        \/ cancel_job_transition(p)
        \/ cancel_job(p)

SpecJob == Init /\ [][NextJob]_vars

LegalJobTransitions ==
    {<<"draft", "published">>, <<"draft", "cancelled">>,
     <<"published", "in_progress">>, <<"published", "cancelled">>,
     <<"in_progress", "completed">>, <<"in_progress", "cancelled">>}

\* C9: every change of Job.status is one of the six legal transitions.
C9_LegalJobTransitions ==
    [][job'.status # job.status
           => <<job.status, job'.status>> \in LegalJobTransitions]_vars

\* C10: once the Job is completed or cancelled its status never changes again.
C10_TerminalJobStatus ==
    [][job.status \in {"completed", "cancelled"} => job'.status = job.status]_vars
\* ------------------------------------------------------------- cancellation
\* Cancellation on its own: a published job whose n accepted applications
\* (n up to NumHeld = workers_needed) each have a pending Transaction, a held
\* Escrow and a payment intent at the PSP.
HeldRows(n) ==
    [applications |-> [a \in 1..n |-> [worker |-> a, status |-> "accepted"]],
     transactions |-> [a \in 1..n |-> [application |-> a, status |-> "pending",
                                       payment_intent_id |-> a,
                                       amount |-> WholeRate * DurationHours,
                                       platform_fee |->
                                           calculate_fees(WholeRate * DurationHours).platform_fee \div 100,
                                       worker_payout |->
                                           calculate_fees(WholeRate * DurationHours).worker_payout \div 100,
                                       completed_at |-> 0]],
     escrows |-> [a \in 1..n |-> [transaction |-> a, application |-> a, status |-> "held",
                                  held_amount |-> WholeRate * DurationHours]],
     psp_intents |-> [a \in 1..n |-> [application |-> a, captures |-> 0, refunds |-> 0]]]

InitSettled ==
    \E n \in 0..NumHeld :
        /\ job = [status |-> "published", workers_needed |-> NumHeld,
                  workers_accepted |-> n, published_at |-> 1,
                  hourly_rate |-> WholeRate, duration_hours |-> DurationHours]
        /\ applications = HeldRows(n).applications
        /\ transactions = HeldRows(n).transactions
        /\ escrows = HeldRows(n).escrows
        /\ psp_intents = HeldRows(n).psp_intents
        /\ checkins = <<>>
        /\ payouts = <<>>
        /\ psp_transfers = <<>>
        /\ req = [p \in Procs |-> Idle]
        /\ aborts = 0

NextCancel ==
    \E p \in Procs :
        \/ cancel_job_load(p)
        \/ cancel_job_transition(p)
        \/ cancel_job(p)

SpecCancel == InitSettled /\ [][NextCancel]_vars

\* The step of process p that ends its request o.
Ends(p, o) == req[p].op = o /\ req[p].phase # "done" /\ req'[p].phase = "done"

\* C11: a cancel_job whose PSP refunds all succeed leaves every Escrow it found
\* held refunded and its Transaction refunded, and the job cancelled; a
\* cancel_job on a job it finds cancelled fails with the invalid-transition
\* error, calls no refund and changes no row.
C11_CancelRefundsThenRejects ==
    [][\A p \in Procs :
        /\ (Ends(p, "cancel_job") /\ IsMid(p, "cancel_job")
                /\ req'[p].refunded = req[p].held)
            => /\ job'.status = "cancelled"
               /\ \A t \in req[p].held :
                      /\ transactions'[t].status = "refunded"
                      /\ \A e \in EscrowsOfTransaction(t) : escrows'[e].status = "refunded"
                      /\ psp_intents'[transactions[t].payment_intent_id].refunds
                             = psp_intents[transactions[t].payment_intent_id].refunds + 1
        /\ (IsIdle(p) /\ req'[p].op = "cancel_job" /\ req'[p].phase = "begun")
            => req'[p].job.status = job.status
        /\ (IsBegun(p, "cancel_job") /\ req[p].job.status = "cancelled"
                /\ req'[p] # req[p])
            => /\ req'[p].phase = "done"
               /\ req'[p].outcome \in {"InvalidTransition", "PermissionError"}
               /\ db' = db /\ psp' = psp]_vars

\* The job was cancelled with its held Escrow refunded, and a later cancel_job
\* has failed with the invalid-transition error.
C11_SecondCancelRejected ==
    \E p \in Procs :
        /\ IsDone(p, "cancel_job")
        /\ req[p].outcome = "InvalidTransition"
        /\ job.status = "cancelled"
        /\ escrows # <<>>
        /\ \A e \in DOMAIN escrows :
               /\ escrows[e].status = "refunded"
               /\ transactions[escrows[e].transaction].status = "refunded"

\* C12: cancel_job calls refund_escrow for every Transaction that is pending or
\* held when it queries them; whichever of the refunds fail, the job ends
\* cancelled and every Transaction whose refund succeeded ends refunded, with
\* its Escrow.
C12_RefundsIndependent ==
    [][\A p \in Procs :
        /\ (IsBegun(p, "cancel_job") /\ req'[p] # req[p]
                /\ (req'[p].phase = "mid"
                       \/ (req'[p].phase = "done" /\ req'[p].outcome = "ok")))
            => req'[p].attempted =
                   {t \in DOMAIN transactions : transactions[t].status \in {"pending", "held"}}
        /\ (Ends(p, "cancel_job") /\ IsMid(p, "cancel_job"))
            => /\ req'[p].outcome = "ok"
               /\ job'.status = "cancelled"
               /\ req'[p].attempted = req[p].attempted
               /\ req[p].held \subseteq req[p].attempted
               /\ \A t \in req'[p].refunded :
                      /\ transactions'[t].status = "refunded"
                      /\ \A e \in EscrowsOfTransaction(t) : escrows'[e].status = "refunded"
               /\ \A t \in DOMAIN transactions \ req'[p].refunded :
                      transactions'[t] = transactions[t]]_vars

\* A cancellation in which one refund failed and another succeeded: the job is
\* cancelled, the one Transaction is refunded, the other is as it was.
C12_OneRefundFailed ==
    \E p \in Procs :
        /\ IsDone(p, "cancel_job") /\ req[p].outcome = "ok"
        /\ job.status = "cancelled"
        /\ req[p].refunded # {}
        /\ req[p].attempted \ req[p].refunded # {}
        /\ \A t \in req[p].refunded : transactions[t].status = "refunded"
        /\ \A t \in req[p].attempted \ req[p].refunded : transactions[t].status = "pending"

\* ------------------------------------------------------------- acceptance
\* Acceptance on its own: a published job with pending applications of the
\* first n workers and no worker accepted yet.
InitPending ==
    \E n \in 0..NumWorkers :
        /\ job = [status |-> "published", workers_needed |-> WorkersNeeded,
                  workers_accepted |-> 0, published_at |-> 1,
                  hourly_rate |-> WholeRate, duration_hours |-> DurationHours]
        /\ applications = [a \in 1..n |-> [worker |-> a, status |-> "pending"]]
        /\ checkins = <<>>
        /\ transactions = <<>>
        /\ escrows = <<>>
        /\ payouts = <<>>
        /\ psp_intents = <<>>
        /\ psp_transfers = <<>>
        /\ req = [p \in Procs |-> Idle]
        /\ aborts = 0

NextAccept ==
    \E p \in Procs :
        \/ \E a \in DOMAIN applications : accept_application_load(p, a)
        \/ accept_application(p)

SpecAccept == InitPending /\ [][NextAccept]_vars

C14_FullJobTakesApplications ==
    [][\A p \in Procs :
        /\ (IsBegun(p, "apply_to_job") /\ req'[p] # req[p]
                /\ job.status = "published" /\ req[p].job_status = "published"
                /\ job.workers_accepted = job.workers_needed /\ req[p].full
                /\ req[p].verified /\ ApplicationsOf(req[p].target) = {})
            => /\ req'[p].outcome = "ok"
               /\ applications' = Append(applications,
                                         [worker |-> req[p].target, status |-> "pending"])
        /\ (IsBegun(p, "accept_application") /\ req'[p] # req[p] /\ req[p].full)
            => req'[p].outcome # "ok" /\ db' = db]_vars

\* C15: apply_to_job reads the job's status, whether it is at capacity and
\* whether the worker has an application; it creates a pending application (and
\* succeeds) only if the job was published, not at capacity, without an
\* application of the worker, and the worker is verified; if one of these
\* fails, the call fails and changes nothing.
C15_ApplyGuards ==
    [][\A p \in Procs :
        /\ (IsIdle(p) /\ req'[p].op = "apply_to_job" /\ req'[p].phase = "begun")
            => /\ req'[p].job_status = job.status
               /\ req'[p].full = (job.workers_accepted >= job.workers_needed)
               /\ req'[p].exists = (ApplicationsOf(req'[p].target) # {})
        /\ (IsBegun(p, "apply_to_job") /\ req'[p] # req[p])
            => LET passes == /\ req[p].job_status = "published"
                             /\ ~req[p].full
                             /\ ~req[p].exists
                             /\ req[p].verified
               IN  /\ req'[p].phase = "done"
                   /\ applications' # applications
                          => /\ passes
                             /\ applications' = Append(applications,
                                    [worker |-> req[p].target, status |-> "pending"])
                   /\ req'[p].outcome = "ok" <=> applications' # applications
                   /\ ~passes => req'[p].outcome = "ValueError" /\ db' = db]_vars

\* An apply_to_job has succeeded: the worker has a pending application.
C15_ApplicationCreated ==
    \E p \in Procs :
        /\ IsDone(p, "apply_to_job") /\ req[p].outcome = "ok"
        /\ \E a \in ApplicationsOf(req[p].target) : applications[a].status = "pending"

\* ------------------------------------------------------------- withdrawal
\* Withdrawal on its own, from a published job with accepted applications.
NextWithdraw ==
    \E p \in Procs :
        \/ \E a \in DOMAIN applications : withdraw_load(p, a)
        \/ withdraw_decrement(p)
        \/ withdraw(p)

SpecWithdraw == InitSettled /\ [][NextWithdraw]_vars

\* C16: workers_accepted is never below 0; a withdraw of an application read
\* as accepted decrements it by exactly 1, a withdraw of an application read in
\* another status leaves it unchanged, and no withdraw decrements it for an
\* application for which another withdraw request has decremented it.
C16_WithdrawDecrementsOnce ==
    [][/\ job'.workers_accepted >= 0
       /\ \A p \in Procs :
           (IsBegun(p, "withdraw") /\ req'[p] # req[p])
           => LET a == req[p].target IN
              /\ (req[p].status # "accepted"
                     \/ (req'[p].phase = "done" /\ req'[p].outcome # "ok"))
                     => job' = job
              /\ job'.workers_accepted \in
                     {job.workers_accepted, job.workers_accepted - 1}
              /\ job'.workers_accepted # job.workers_accepted
                     => \A q \in Procs \ {p} :
                            ~(/\ req[q].op = "withdraw" /\ req[q].target = a
                              /\ \/ req[q].phase = "decremented"
                                 \/ req[q].phase = "done" /\ req[q].detail = "decremented")]_vars

\* ------------------------------------------------------------- the payment flow
\* scripts/verify_payment_flow.py: one business, one worker, a job for one
\* worker at an hourly rate (any rate up to HourlyRate hundredths, or
\* HourlyRate soms) scheduled for up to DurationHours hours, taken from
\* creation through publish, apply, accept, check-in and check-out by one
\* caller.
Rates == (1..HourlyRate) \cup {WholeRate}

InitFlow ==
    /\ job \in {[status |-> "draft", workers_needed |-> 1, workers_accepted |-> 0,
                 published_at |-> 0, hourly_rate |-> r, duration_hours |-> d] :
                    r \in Rates, d \in 1..DurationHours}
    /\ applications = <<>>
    /\ checkins = <<>>
    /\ transactions = <<>>
    /\ escrows = <<>>
    /\ payouts = <<>>
    /\ psp_intents = <<>>
    /\ psp_transfers = <<>>
    /\ req = [p \in Procs |-> Idle]
    /\ aborts = 0

NextFlow ==
    \E p \in {1} :
        \/ Engage(p, {1})
        \/ \E c \in DOMAIN checkins : check_out_load(p, c)
        \/ check_out_checkout(p)
        \/ check_out_capture(p)
        \/ check_out(p)

SpecFlow == InitFlow /\ [][NextFlow]_vars

\* The hundredth q is the fraction pct/100 of amount, to the nearest hundredth.
IsPercentOf(q, pct, amount) == q \in quantize(pct * amount, 100)

handlers ==
    {"payment_intent.succeeded", "payment_intent.payment_failed",
     "transfer.paid", "transfer.failed"}

\* The event types a delivery can carry ('unknown' when the payload has none).
EventTypes == handlers \cup {"unknown"}

\* PSPAdapter.verify_webhook: "valid" (is_valid, the event), "invalid" (not
\* is_valid: a bad signature for Stripe, a body that is not JSON for the mock),
\* "raises" (the mock adapter on a body json.loads cannot decode or that is
\* not a JSON object).
Verifications == {"valid", "invalid", "raises"}
verify_webhook(verified) == verified = "valid"

\* The ids an event can refer to: those the PSP has issued for intents and for
\* transfers, one it has not issued (the next), and for transfers the blank
\* id, 0, that a Payout without a transfer carries.
IntentIds == 1..(Len(psp_intents) + 1)
TransferIds == 0..(Len(psp_transfers) + 1)

\* The id an event of the given type carries in data.object.id (an event of
\* no known type is given none).
EventIds(type) ==
    IF type \in {"payment_intent.succeeded", "payment_intent.payment_failed"} THEN IntentIds
    ELSE IF type \in {"transfer.paid", "transfer.failed"} THEN TransferIds
    ELSE {0}

\* data.object.last_payment_error of a payment_intent.payment_failed event: an
\* object with a message, or JSON null.
PaymentErrors(type) ==
    IF type = "payment_intent.payment_failed" THEN {"object", "null"} ELSE {"object"}

\* Transaction.objects.get(payment_intent_id=i) / Payout.objects.get(transfer_id=x)
TransactionsOfIntent(i) ==
    {t \in DOMAIN transactions : transactions[t].payment_intent_id = i}
PayoutsOfTransfer(x) == {n \in DOMAIN payouts : payouts[n].transfer_id = x}

\* The rows an event of the given type with the given id refers to.
referenced(type, id) ==
    IF type \in {"payment_intent.succeeded", "payment_intent.payment_failed"}
    THEN TransactionsOfIntent(id) ELSE PayoutsOfTransfer(id)

\* complete_payout's guard on the payout instance it loaded.
already_completed(payout) == payout.status = "completed"

\* Payout.mark_completed on the loaded instance:
\* save(update_fields=['status', 'completed_at']).
mark_completed(n) ==
    [payouts EXCEPT ![n].status = "completed", ![n].completed_at = @ + 1]

\* Payout.mark_failed on the loaded instance: save(update_fields=['status',
\* 'failed_at', 'failure_reason', 'retry_count']).
\* failed_at is 0 (null) or 1 (a time); failure_reason is blank or the reason.
mark_failed(n, inst) ==
    [payouts EXCEPT ![n].status = "failed", ![n].retry_count = inst.retry_count + 1,
                    ![n].failed_at = 1, ![n].failure_reason = "failure_message"]

\* complete_payout after mark_completed: the payout's transaction, read then,
\* saved as completed with completed_at = now.
complete_transaction(t) ==
    [transactions EXCEPT ![t].status = "completed", ![t].completed_at = @ + 1]

\* A handler's trans.save() of the instance it loaded, with a new status.
save_transaction(t, inst, status) ==
    [transactions EXCEPT ![t] = [inst EXCEPT !.status = status]]

\* A response of WebhookView.post to a delivery: the HTTP status and the
\* message, with what the delivery carried.
Response(ev, code, message) ==
    [op |-> "handle_webhook", phase |-> "done", target |-> ev.id, outcome |-> code,
     detail |-> message, verified |-> ev.verified, type |-> ev.type]

\* WebhookView.post up to the handler's reads: verification, routing, the
\* lookup of the row the event refers to and the checks on the instance read.
post(p, verified, type, id, last_payment_error) ==
    /\ IsIdle(p)
    /\  LET rows == referenced(type, id)
            r == CHOOSE x \in rows : TRUE
            ev == [verified |-> verified, type |-> type, id |-> id] IN
        /\ req' = [req EXCEPT ![p] =
               IF verified = "raises" THEN Response(ev, "500", "verification raised")
               ELSE IF ~verify_webhook(verified) THEN Response(ev, "400", "Invalid signature")
               ELSE IF type \notin handlers THEN Response(ev, "200", "Ignored")
               ELSE IF rows = {} THEN Response(ev, "200", "not found")
               ELSE IF Cardinality(rows) > 1
                    THEN Response(ev, "400", "MultipleObjectsReturned")
               ELSE IF type = "payment_intent.succeeded" /\ transactions[r].status # "pending"
                    THEN Response(ev, "200", "not pending")
               ELSE IF type = "transfer.paid" /\ already_completed(payouts[r])
                    THEN Response(ev, "200", "already completed")
               ELSE [op |-> "handle_webhook", phase |-> "begun", type |-> type,
                     id |-> id, verified |-> verified, target |-> r,
                     inst |-> IF type \in {"transfer.paid", "transfer.failed"}
                              THEN payouts[r] ELSE transactions[r],
                     last_payment_error |-> last_payment_error]]
        /\ UNCHANGED <<db, psp, aborts>>

\* A delivery of any event the endpoint can be sent.
handle_webhook_load(p) ==
    \E verified \in Verifications, type \in EventTypes :
       \E id \in EventIds(type), last_payment_error \in PaymentErrors(type) :
           post(p, verified, type, id, last_payment_error)

\* The handler's writes and the response.  (completed_at and retry_count grow
\* with every write: at most MaxStamps writes of each are followed.)
handle_webhook(p) ==
    /\ IsBegun(p, "handle_webhook")
    /\ LET r == req[p].target
           type == req[p].type
           inst == req[p].inst IN
       CASE type = "payment_intent.succeeded" ->
                /\ Free(p, {<<"transaction", r>>})
                /\ transactions' = save_transaction(r, inst, "held")
                /\ req' = [req EXCEPT ![p] = Response(req[p], "200", "Processed")]
                /\ UNCHANGED <<job, applications, checkins, escrows, payouts, psp, aborts>>
         [] type = "payment_intent.payment_failed" ->
                IF req[p].last_payment_error = "null" THEN
                    /\ req' = [req EXCEPT ![p] = Response(req[p], "400", "AttributeError")]
                    /\ UNCHANGED <<db, psp, aborts>>
                ELSE
                    /\ Free(p, {<<"transaction", r>>})
                    /\ transactions' = save_transaction(r, inst, "failed")
                    /\ req' = [req EXCEPT ![p] = Response(req[p], "200", "Processed")]
                    /\ UNCHANGED <<job, applications, checkins, escrows, payouts, psp, aborts>>
         [] type = "transfer.paid" ->
                /\ payouts[r].completed_at < MaxStamps
                /\ Free(p, {<<"transaction", inst.transaction>>})
                /\ payouts' = mark_completed(r)
                /\ transactions' = complete_transaction(inst.transaction)
                /\ req' = [req EXCEPT ![p] = Response(req[p], "200", "Processed")]
                /\ UNCHANGED <<job, applications, checkins, escrows, psp, aborts>>
         [] type = "transfer.failed" ->
                /\ inst.retry_count < MaxStamps
                /\ payouts' = mark_failed(r, inst)
                /\ req' = [req EXCEPT ![p] = Response(req[p], "200", "Processed")]
                /\ UNCHANGED <<job, applications, checkins, transactions, escrows, psp, aborts>>

\* Webhook deliveries on their own, for up to NumSettled accepted applications,
\* each with its hold in place (Transaction pending, Escrow held) or settled
\* (Transaction held, Escrow released, a Payout processing with its transfer or
\* failed without one).
Settlements == {"hold", "processing", "failed"}

PaidRows(n, k) ==
    [transactions |-> [a \in 1..n |->
         [HeldRows(n).transactions[a] EXCEPT !.status = IF k[a] = "hold" THEN "pending" ELSE "held"]],
     escrows |-> [a \in 1..n |->
         [HeldRows(n).escrows[a] EXCEPT !.status = IF k[a] = "hold" THEN "held" ELSE "released"]],
     payouts |-> [a \in 1..n |->
         [transaction |-> a, amount |-> HeldRows(n).transactions[a].worker_payout,
          completed_at |-> 0,
          status |-> IF k[a] = "processing" THEN "processing" ELSE "failed",
          transfer_id |-> IF k[a] = "processing" THEN a ELSE 0,
          retry_count |-> IF k[a] = "processing" THEN 0 ELSE 1,
          failed_at |-> IF k[a] = "processing" THEN 0 ELSE 1,
          failure_reason |-> IF k[a] = "processing" THEN "" ELSE "transfer failed"]],
     psp_transfers |-> [a \in 1..n |-> [transaction |-> a, payout |-> a]]]

InitPaid ==
    \E n \in 0..NumSettled :
      \E k \in [1..n -> Settlements] :
        \* the settled applications come first, those whose transfer was made
        \* before those without one
        /\ \A a, b \in 1..n :
               (a < b) => /\ k[b] = "processing" => k[a] = "processing"
                          /\ k[a] = "hold" => k[b] = "hold"
        /\ LET paid == Cardinality({a \in 1..n : k[a] # "hold"})
               sent == Cardinality({a \in 1..n : k[a] = "processing"}) IN
           /\ job = [status |-> IF paid = 0 THEN "published" ELSE "in_progress",
                     workers_needed |-> NumSettled,
                     workers_accepted |-> n, published_at |-> 1,
                     hourly_rate |-> WholeRate, duration_hours |-> DurationHours]
           /\ applications = HeldRows(n).applications
           /\ checkins = [a \in 1..paid |->
                              [application |-> a, checked_out_at |-> 1,
                               worked_hours |-> DurationHours,
                               check_out_at |-> <<-90, -180>>]]
           /\ transactions = PaidRows(n, k).transactions
           /\ escrows = PaidRows(n, k).escrows
           /\ payouts = SubSeq(PaidRows(n, k).payouts, 1, paid)
           /\ psp_intents = [a \in 1..n |->
                                 [application |-> a, refunds |-> 0,
                                  captures |-> IF k[a] = "hold" THEN 0 ELSE 1]]
           /\ psp_transfers = SubSeq(PaidRows(n, k).psp_transfers, 1, sent)
           /\ req = [p \in Procs |-> Idle]
           /\ aborts = 0

NextWebhook ==
    \E p \in Procs :
        \/ handle_webhook_load(p)
        \/ handle_webhook(p)

SpecWebhook == InitPaid /\ [][NextWebhook]_vars

\* C18: a transfer.paid delivery for a Payout that is already completed (the
\* same event delivered again) is a no-op: it leaves every Payout, every
\* Transaction (completed_at included) and every Escrow as they are, so that
\* the Payout and its Transaction go to completed exactly once.
C18_ReplayIsNoOp ==
    [][\A p \in Procs :
        (/\ IsBegun(p, "handle_webhook") /\ req[p].type = "transfer.paid"
         /\ req[p].id \in DOMAIN psp_transfers
         /\ req'[p] # req[p]
         /\ already_completed(payouts[req[p].target]))
        => /\ payouts' = payouts
           /\ transactions' = transactions
           /\ escrows' = escrows]_vars

\* C19: a delivery whose verification fails is answered with a client error
\* and changes no Transaction, Escrow or Payout, nor anything else in the
\* database, and makes no PSP call, whatever event type and id it carries.
C19_InvalidSignatureRejected ==
    [][\A p \in Procs :
        (/\ req'[p] # req[p] /\ req'[p].op = "handle_webhook"
         /\ req'[p].verified = "invalid")
        => /\ req'[p].phase = "done"
           /\ req'[p].outcome = "400"
           /\ db' = db
           /\ psp' = psp]_vars

\* A delivery that named an existing transfer was rejected for its signature.
C19_Rejected ==
    \E p \in Procs :
        /\ IsDone(p, "handle_webhook") /\ req[p].verified = "invalid"
        /\ req[p].type = "transfer.paid"
        /\ PayoutsOfTransfer(req[p].target) # {}
        /\ \A n \in PayoutsOfTransfer(req[p].target) : payouts[n].status = "processing"

\* C20: a delivery that passed verification is answered with success whatever
\* its routing does: an unrecognized event type, an unknown Transaction or
\* Payout, a handler that fails.
C20_ValidAlwaysSuccess ==
    \A p \in Procs :
        (IsDone(p, "handle_webhook") /\ req[p].verified = "valid")
        => req[p].outcome = "200"

\* ------------------------------------------------------------- release and transfer.paid
\* Check-outs, and releases called for check-ins that are checked out with the
\* hold still in place (the capture inside check_out failed), by one caller,
\* while the PSP delivers transfer.paid events.  At the start every accepted
\* worker is checked in, and either none or all of them are checked out after
\* h hours with the capture failed.
InitCheckedOut ==
    \E n \in 1..NumSettled : \E h \in {0} \cup WorkedHours :
        /\ job = [status |-> "in_progress", workers_needed |-> NumSettled,
                  workers_accepted |-> n, published_at |-> 1,
                  hourly_rate |-> WholeRate, duration_hours |-> DurationHours]
        /\ applications = HeldRows(n).applications
        /\ transactions = HeldRows(n).transactions
        /\ escrows = HeldRows(n).escrows
        /\ psp_intents = HeldRows(n).psp_intents
        /\ checkins = [a \in 1..n |-> [application |-> a,
                                        checked_out_at |-> IF h = 0 THEN 0 ELSE 1,
                                        worked_hours |-> h,
                                        check_out_at |-> IF h = 0 THEN <<>>
                                                         ELSE <<-90, -180>>]]
        /\ payouts = <<>>
        /\ psp_transfers = <<>>
        /\ req = [p \in Procs |-> Idle]
        /\ aborts = 0

NextPaid ==
    \/ \E p \in {1} :
        \/ \E c \in DOMAIN checkins : check_out_load(p, c)
        \/ check_out_checkout(p)
        \/ check_out_capture(p)
        \/ check_out(p)
        \/ \E c \in DOMAIN checkins : release_escrow_after_checkout_load(p, c)
        \/ release_escrow_after_checkout_capture(p)
        \/ release_escrow_after_checkout(p)
    \/ \E p \in Procs \ {1} :
        \/ \E id \in TransferIds : post(p, "valid", "transfer.paid", id, "object")
        \/ handle_webhook(p)

SpecPaid == InitCheckedOut /\ [][NextPaid]_vars

\* C21: a transfer.paid delivery for a transfer the PSP has taken is answered
\* with success whenever it comes, every Transaction has at most one Payout,
\* and once the delivery is answered and the release that made the transfer
\* has committed, the Payout is completed and its Transaction is completed.
C21_PaidEventNotLost ==
    /\ \A t \in DOMAIN transactions : Cardinality(PayoutsOf(t)) <= 1
    /\ \A q \in Procs :
        (/\ IsDone(q, "handle_webhook") /\ req[q].verified = "valid"
         /\ req[q].type = "transfer.paid" /\ req[q].target \in DOMAIN psp_transfers)
        => /\ req[q].outcome = "200"
           /\ \A n \in PayoutsOfTransfer(req[q].target) :
                /\ payouts[n].status = "completed"
                /\ transactions[payouts[n].transaction].status = "completed"

\* ------------------------------------------------------------- check-ins alone
\* A job with every worker's application in some status, the accepted ones
\* counted, the first k accepted workers checked in already (their check-in
\* started the job), and no payment hold (create_escrow failed at accept).
InitCheckIn ==
    \E st \in [Workers -> ApplicationStatus] : \E k \in 0..NumWorkers :
        LET accepted == {a \in Workers : st[a] = "accepted"}
            here == {a \in accepted : a <= k}
        IN  /\ k = Cardinality(here)
            /\ job = [status |-> IF here = {} THEN "published" ELSE "in_progress",
                      workers_needed |-> NumWorkers,
                      workers_accepted |-> Cardinality(accepted), published_at |-> 1,
                      hourly_rate |-> WholeRate, duration_hours |-> DurationHours]
            /\ applications = [a \in Workers |-> [worker |-> a, status |-> st[a]]]
            /\ checkins = [c \in 1..k |-> [application |-> c, checked_out_at |-> 0,
                                            worked_hours |-> 0, check_out_at |-> <<>>]]
            /\ transactions = <<>>
            /\ escrows = <<>>
            /\ payouts = <<>>
            /\ psp_intents = <<>>
            /\ psp_transfers = <<>>
            /\ req = [p \in Procs |-> Idle]
            /\ aborts = 0

NextCheckIn ==
    \E p \in Procs :
        \/ \E a \in DOMAIN applications : check_in_load(p, a)
        \/ check_in(p)

SpecCheckIn == InitCheckIn /\ [][NextCheckIn]_vars

\* C22: a check_in succeeds exactly when the application is accepted, has no
\* CheckIn yet, the latitude is in [-90, 90], the longitude in [-180, 180] and
\* the distance to the job is at most 100 m; a distance over 100 m with all
\* else right fails as too far; a failing check_in creates no CheckIn and
\* leaves the job's status unchanged.
C22_CheckInSucceedsExactlyWhen ==
    [][\A p \in Procs :
        Ends(p, "check_in") =>
            LET a == req[p].target
                at == req[p].at
                valid == /\ -90 <= at.lat /\ at.lat <= 90
                         /\ -180 <= at.lng /\ at.lng <= 180
                ready == /\ applications[a].status = "accepted"
                         /\ CheckInsOf(a) = {}
                         /\ valid
            IN  /\ req'[p].outcome = "ok" <=> (ready /\ at.distance <= 100)
                /\ (ready /\ at.distance > 100)
                     => req'[p].outcome = "ValueError" /\ req'[p].detail = "too far"
                /\ req'[p].outcome = "ok"
                     => /\ Len(checkins') = Len(checkins) + 1
                        /\ checkins'[Len(checkins')].application = a
                /\ req'[p].outcome # "ok"
                     => checkins' = checkins /\ job'.status = job.status]_vars

\* Two check-ins have been answered: one succeeded and created the worker's
\* CheckIn, the other was refused as too far.
C22_NearAndFar ==
    \E p \in Procs, q \in Procs :
        /\ IsDone(p, "check_in") /\ req[p].outcome = "ok"
        /\ CheckInsOf(req[p].target) # {}
        /\ IsDone(q, "check_in") /\ req[q].outcome = "ValueError"
        /\ req[q].detail = "too far"

\* ------------------------------------------------------------- check-outs alone
\* n accepted workers at work, none checked out; the first m have a payment
\* hold, the others none (create_escrow failed at accept).  Either the job runs
\* and the holds are held, or the job was cancelled and the holds refunded.
InitCheckedIn ==
    \E n \in 1..NumHeld : \E m \in 0..n : \E cancelled \in BOOLEAN :
        /\ job = [status |-> IF cancelled THEN "cancelled" ELSE "in_progress",
                  workers_needed |-> NumHeld,
                  workers_accepted |-> n, published_at |-> 1,
                  hourly_rate |-> WholeRate, duration_hours |-> DurationHours]
        /\ applications = HeldRows(n).applications
        /\ transactions = [t \in 1..m |->
               [HeldRows(m).transactions[t] EXCEPT
                    !.status = IF cancelled THEN "refunded" ELSE @]]
        /\ escrows = [e \in 1..m |->
               [HeldRows(m).escrows[e] EXCEPT
                    !.status = IF cancelled THEN "refunded" ELSE @]]
        /\ psp_intents = [i \in 1..m |->
               [HeldRows(m).psp_intents[i] EXCEPT
                    !.refunds = IF cancelled THEN 1 ELSE @]]
        /\ checkins = [a \in 1..n |-> [application |-> a, checked_out_at |-> 0,
                                        worked_hours |-> 0, check_out_at |-> <<>>]]
        /\ payouts = <<>>
        /\ psp_transfers = <<>>
        /\ req = [p \in Procs |-> Idle]
        /\ aborts = 0

NextCheckOut ==
    \E p \in Procs :
        \/ \E c \in DOMAIN checkins : check_out_load(p, c)
        \/ check_out_checkout(p)
        \/ check_out_capture(p)
        \/ check_out(p)

SpecCheckOut == InitCheckedIn /\ [][NextCheckOut]_vars

InitSinks ==
    \E n \in 0..NumWorkers : \E st \in [1..n -> {"pending", "accepted"}] :
        /\ job = [status |-> "published", workers_needed |-> NumWorkers,
                  workers_accepted |-> Cardinality({a \in 1..n : st[a] = "accepted"}),
                  published_at |-> 1,
                  hourly_rate |-> WholeRate, duration_hours |-> DurationHours]
        /\ applications = [a \in 1..n |-> [worker |-> a, status |-> st[a]]]
        /\ checkins = <<>>
        /\ transactions = <<>>
        /\ escrows = <<>>
        /\ payouts = <<>>
        /\ psp_intents = <<>>
        /\ psp_transfers = <<>>
        /\ req = [p \in Procs |-> Idle]
        /\ aborts = 0

NextSinks ==
    \E p \in Procs :
        \/ \E w \in Workers : apply_to_job_load(p, w)
        \/ \E sink \in SinkResults : apply_to_job_sinks(p, sink)
        \/ \E a \in DOMAIN applications : reject_application_load(p, a)
        \/ \E sink \in SinkResults : reject_application_sinks(p, sink)
        \/ \E a \in DOMAIN applications : check_in_load(p, a)
        \/ \E sink \in SinkResults : check_in_sinks(p, sink)

SpecSinks == InitSinks /\ [][NextSinks]_vars

\* C24: whatever the notification and fraud-signal calls did, an apply, a
\* reject or a check_in that returns normally has left what it leaves when
\* the calls go through: the worker's application, the application rejected,
\* the application's CheckIn.
C24_SinksDoNotMatter ==
    [][\A p \in Procs :
        /\ (Ends(p, "apply_to_job") /\ req'[p].outcome = "ok")
             => \E i \in DOMAIN applications' :
                    applications'[i].worker = req[p].target
        /\ (Ends(p, "reject_application") /\ req'[p].outcome = "ok")
             => applications'[req[p].target].status = "rejected"
        /\ (Ends(p, "check_in") /\ req'[p].outcome = "ok")
             => \E c \in DOMAIN checkins' :
                    checkins'[c].application = req[p].target]_vars

\* C25: a publish_job, complete_job or cancel_job that is refused leaves the
\* job's status and published_at as they were and asks the PSP for no refund;
\* published_at changes only in a publish_job that succeeds, and once stamped
\* it never changes.
C25_RejectedRequestsAndPublishedAt ==
    [][/\ \A p \in Procs : \A o \in {"publish_job", "complete_job", "cancel_job"} :
            (Ends(p, o) /\ req'[p].outcome # "ok")
            => /\ job'.status = job.status
               /\ job'.published_at = job.published_at
               /\ psp_intents' = psp_intents
       /\ job'.published_at # job.published_at
            => \E p \in Procs : Ends(p, "publish_job") /\ req'[p].outcome = "ok"
       /\ job.published_at # 0 => job'.published_at = job.published_at]_vars

\* ------------------------------------------------------------- application status
\* One request after the other: accepts, rejects and withdrawals.
NextStatus ==
    \E p \in {1} :
        \/ \E a \in DOMAIN applications : accept_application_load(p, a)
        \/ accept_application(p)
        \/ \E a \in DOMAIN applications : reject_application_load(p, a)
        \/ reject_application(p)
        \/ \E a \in DOMAIN applications : withdraw_load(p, a)
        \/ withdraw_decrement(p)
        \/ withdraw(p)

SpecStatus == InitPending /\ [][NextStatus]_vars

\* C26: every change of an application's status is pending -> accepted,
\* pending -> rejected, pending -> withdrawn or accepted -> withdrawn; an
\* accept or a reject of an application that is not pending fails and changes
\* no application.
C26_LegalApplicationTransitions ==
    [][/\ \A a \in DOMAIN applications :
            applications'[a].status # applications[a].status
            => <<applications[a].status, applications'[a].status>>
                 \in {<<"pending", "accepted">>, <<"pending", "rejected">>,
                      <<"pending", "withdrawn">>, <<"accepted", "withdrawn">>}
       /\ \A p \in Procs : \A o \in {"accept_application", "reject_application"} :
            (Ends(p, o) /\ applications[req[p].target].status # "pending")
            => req'[p].outcome # "ok" /\ applications' = applications]_vars

\* C27: an application never has more than one CheckIn; a check_in of an
\* accepted application that has a CheckIn, from a valid position within
\* reach, fails with 'already checked in' and creates nothing, also when the
\* CheckIn was made while the request was in flight.
C27_OneCheckInPerApplication ==
    [][/\ \A a \in DOMAIN applications : Cardinality(CheckInsOf(a)') <= 1
       /\ \A p \in Procs :
            (/\ Ends(p, "check_in")
             /\ applications[req[p].target].status = "accepted"
             /\ CheckInsOf(req[p].target) # {}
             /\ -90 <= req[p].at.lat /\ req[p].at.lat <= 90
             /\ -180 <= req[p].at.lng /\ req[p].at.lng <= 180
             /\ req[p].at.distance <= 100)
            => /\ req'[p].outcome = "ValueError"
               /\ req'[p].detail = "already checked in"
               /\ checkins' = checkins]_vars

\* C28: checked_out_at and the check-out coordinates of a CheckIn are unset
\* together or set together, and once set they never change; a check_out with
\* valid coordinates of a CheckIn that is checked out fails with 'already
\* checked out', writes nothing and asks the PSP for nothing, also when the
\* CheckIn was checked out while the request was in flight.
C28_CheckOutOnce ==
    [][/\ \A c \in DOMAIN checkins :
            /\ checkins'[c].checked_out_at = 0 <=> checkins'[c].check_out_at = <<>>
            /\ checkins[c].checked_out_at # 0
                 => /\ checkins'[c].checked_out_at = checkins[c].checked_out_at
                    /\ checkins'[c].check_out_at = checkins[c].check_out_at
       /\ \A p \in Procs :
            (/\ Ends(p, "check_out")
             /\ checkins[req[p].target].checked_out_at # 0
             /\ -90 <= req[p].at.lat /\ req[p].at.lat <= 90
             /\ -180 <= req[p].at.lng /\ req[p].at.lng <= 180)
            => /\ req'[p].outcome = "ValueError"
               /\ req'[p].detail = "already checked out"
               /\ UNCHANGED <<db, psp>>]_vars

NextAborts ==
    \E p \in Procs :
        \/ Release(p)
        \/ check_out_abort(p)
        \/ release_escrow_after_checkout_abort(p)

SpecAborts == InitCheckedOut /\ [][NextAborts]_vars

C31_FailedTransferStillReleases ==
    [][\A p \in Procs :
        (/\ Ends(p, "check_out") /\ req[p].phase = "sent" /\ req[p].transfer_id = 0)
        => LET n == Len(payouts') IN
           /\ req'[p].outcome = "ok"
           /\ n = Len(payouts) + 1
           /\ payouts'[n].transaction = req[p].trans
           /\ payouts'[n].status = "failed"
           /\ payouts'[n].failed_at # 0
           /\ payouts'[n].failure_reason # ""
           /\ payouts'[n].retry_count = 1
           /\ psp_intents' = psp_intents
           /\ psp_intents[transactions[req[p].trans].payment_intent_id].captures >= 1
           /\ transactions'[req[p].trans].status = "held"
           /\ escrows'[req[p].escrow].status = "released"]_vars

\* A check-out whose transfer failed has committed: a failed Payout, its
\* Escrow released, no transfer at the PSP.
C31_FailedPayoutStored ==
    \E n \in DOMAIN payouts :
        /\ payouts[n].status = "failed" /\ payouts[n].transfer_id = 0
        /\ TransfersOf(payouts[n].transaction) = {}
        /\ \E e \in EscrowsOfTransaction(payouts[n].transaction) :
               escrows[e].status = "released"

\* ------------------------------------------------------------- refunds against releases
\* Cancellations of the job while its workers check out.
NextRefund ==
    \E p \in Procs :
        \/ cancel_job_load(p)
        \/ cancel_job_transition(p)
        \/ cancel_job(p)
        \/ \E c \in DOMAIN checkins : check_out_load(p, c)
        \/ check_out_checkout(p)
        \/ check_out_capture(p)
        \/ check_out(p)

SpecRefund == InitCheckedIn /\ [][NextRefund]_vars

\* The transactions that a step refunds: the PSP is asked for a refund of their
\* payment intent, or their row or their escrow's row changes.
Refunded ==
    {t \in DOMAIN transactions :
        \/ psp_intents'[transactions[t].payment_intent_id].refunds
             # psp_intents[transactions[t].payment_intent_id].refunds
        \/ transactions'[t] # transactions[t]
        \/ \E e \in EscrowsOfTransaction(t) : escrows'[e] # escrows[e]}

\* C32: cancel_job's refunds reach the PSP and change rows only for the
\* transactions that refund_escrow found pending or held with their escrow
\* held; for the others there is no PSP call and no change.  A transaction
\* whose release has committed (escrow released) when cancel_job reads it is
\* never refunded.
C32_RefundOnlyHeld ==
    [][\A p \in Procs :
        /\ (IsBegun(p, "cancel_job") /\ req'[p] # req[p])
             => /\ Refunded = {}
                /\ req'[p].phase = "mid"
                     => req'[p].held =
                            {t \in DOMAIN transactions :
                                /\ transactions[t].status \in {"pending", "held"}
                                /\ \E e \in DOMAIN escrows :
                                       /\ escrows[e].transaction = t
                                       /\ escrows[e].status = "held"}
        /\ (IsMid(p, "cancel_job") /\ req'[p] # req[p])
             => /\ Refunded \subseteq req[p].held
                /\ Refunded = req'[p].refunded]_vars

\* A cancel_job has refunded one worker's hold and left alone the transaction
\* of a worker whose check-out had released the escrow before.
C32_RefundedBesideReleased ==
    \E p \in Procs :
        /\ IsDone(p, "cancel_job") /\ req[p].outcome = "ok"
        /\ req[p].detail = "refunded" /\ req[p].refunded # {}
        /\ \E t \in req[p].attempted \ req[p].refunded :
            /\ transactions[t].status = "held"
            /\ psp_intents[transactions[t].payment_intent_id].refunds = 0
            /\ \E e \in EscrowsOfTransaction(t) : escrows[e].status = "released"

\* C33: after a cancel_job in which the PSP refund of a transaction failed,
\* that Transaction is stored with status failed and its Escrow is still held.
C33_FailedRefundStored ==
    [][\A p \in Procs :
        (IsMid(p, "cancel_job") /\ Ends(p, "cancel_job"))
        => \A t \in req[p].held \ req'[p].refunded :
               /\ transactions'[t].status = "failed"
               /\ \A e \in DOMAIN escrows' :
                      escrows'[e].transaction = t => escrows'[e].status = "held"]_vars

\* C34: a payment_intent.succeeded delivery changes a Transaction only from
\* pending to held, and nothing else of it; whatever else the Transaction's
\* status is when the handler writes, the delivery leaves every Transaction,
\* Escrow and Payout as it is.
C34_SucceededOnlyPendingToHeld ==
    [][\A p \in Procs :
        (/\ req[p].op = "handle_webhook" /\ req[p].phase = "begun"
         /\ req[p].type = "payment_intent.succeeded"
         /\ req'[p] # req[p])
        => /\ escrows' = escrows
           /\ payouts' = payouts
           /\ \A t \in DOMAIN transactions :
                  transactions'[t] # transactions[t]
                  => /\ transactions[t].status = "pending"
                     /\ transactions'[t] = [transactions[t] EXCEPT !.status = "held"]]_vars

\* C35: whenever no request is in progress, workers_accepted equals the number
\* of applications whose status is accepted: an application counts once,
\* however many accepts were requested for it.
C35_CounterMatchesAccepted ==
    (\A p \in Procs : IsIdle(p))
        => job.workers_accepted = Cardinality(AcceptedApplications)

\* C36: completed and refunded are terminal: no step moves a Transaction that
\* is stored as completed or refunded to another status.
C36_TerminalTransactionStatus ==
    [][\A t \in DOMAIN transactions :
        transactions[t].status \in {"completed", "refunded"}
        => transactions'[t].status = transactions[t].status]_vars

\* C37: a Payout stored as completed stays completed in every later state, and
\* after every step a Transaction in status completed has a completed Payout.
C37_CompletedPayoutStays ==
    [][/\ \A n \in DOMAIN payouts :
              payouts[n].status = "completed" => payouts'[n].status = "completed"
       /\ \A t \in DOMAIN transactions' :
              transactions'[t].status = "completed"
              => \E n \in DOMAIN payouts' :
                     /\ payouts'[n].transaction = t
                     /\ payouts'[n].status = "completed"]_vars

\* C38: the amount captured for the hours worked never exceeds the amount the
\* Escrow holds: whenever an Escrow is released, its Transaction's amount is at
\* most the Escrow's held_amount.
C38_CapturedWithinHeld ==
    \A e \in DOMAIN escrows :
        escrows[e].status = "released"
        => transactions[escrows[e].transaction].amount <= escrows[e].held_amount

\* C39: once the job is cancelled and none of its Escrows is held, none is held
\* in any later state: no step places a hold for an application of a cancelled
\* job.
C39_NoHoldAfterCancel ==
    [][(/\ job.status = "cancelled"
        /\ \A e \in DOMAIN escrows : escrows[e].status # "held")
       => \A e \in DOMAIN escrows' : escrows'[e].status # "held"]_vars

\* ------------------------------------------------------------- payment_failed against check-out
\* Check-outs by one caller while the PSP delivers payment_intent.payment_failed
\* events for the holds.
NextFailed ==
    \/ \E p \in {1} :
        \/ \E c \in DOMAIN checkins : check_out_load(p, c)
        \/ check_out_checkout(p)
        \/ check_out_capture(p)
        \/ check_out(p)
    \/ \E p \in Procs \ {1} :
        \/ \E id \in IntentIds :
               post(p, "valid", "payment_intent.payment_failed", id, "object")
        \/ handle_webhook(p)

SpecFailed == InitCheckedIn /\ [][NextFailed]_vars

\* C40: for a Transaction stored as failed or refunded, no step calls the PSP
\* capture for its payment intent, creates a Payout for it, or moves it to
\* held.
C40_NoCaptureOfFailed ==
    [][\A t \in DOMAIN transactions :
        transactions[t].status \in {"failed", "refunded"}
        => /\ psp_intents'[transactions[t].payment_intent_id].captures
                  = psp_intents[transactions[t].payment_intent_id].captures
           /\ \A n \in DOMAIN payouts' :
                  payouts'[n].transaction = t => n \in DOMAIN payouts
           /\ transactions'[t].status # "held"]_vars
====
